---- MODULE Spec2Model ----
(***************************************************************************)
(* Model of the live voice session engine of src/App.tsx: the session      *)
(* toggle (startSession / stopSession), the channel callbacks (onopen,     *)
(* onmessage, onerror, onclose), the playback scheduling on the output     *)
(* audio clock and the transcript / history bookkeeping.                   *)
(*                                                                         *)
(* Time is counted in ticks of the output audio clock; a chunk's duration  *)
(* is a number of ticks.  The text delta carried by the n-th inbound       *)
(* message is the one-token string <<n>>, so that concatenation order is   *)
(* visible in the accumulators.                                            *)
(***************************************************************************)
EXTENDS Integers, Sequences, FiniteSets, TLC

\* ------------------------------------------------------------------ bounds
MaxAttempts == 2      \* connection attempts (startSession past line 46)
MaxMsgs     == 3      \* inbound messages delivered, audio among them
MaxTextMsgs == 4      \* inbound messages delivered, none with audio
MaxClock    == 2      \* ticks the output clock is followed for
SampleSteps == 4      \* capture samples are multiples of 1 / SampleSteps

Attempts  == 1..MaxAttempts
Durations == {1, 2}   \* audioBuffer.duration of a chunk, in ticks

\* A capture sample k stands for the amplitude k / SampleSteps; the microphone
\* delivers amplitudes in [-1, 1] and, overdriven, up to twice that.
Samples == (0 - 2 * SampleSteps)..(2 * SampleSteps)

\* Line 90: the 0.9 headroom factor in tenths, and the int16 full scale.
HeadroomTenths == 9
FullScale      == 32767
\* Line 87: an Int16Array element holds its value modulo 2^16.
Int16Modulus   == 65536

\* A part of modelTurn.parts: a duration when it carries inlineData.data,
\* NoData when it does not (line 109 skips it).
NoData == 0

VARIABLES
    isActive,          \* useState(false), line 9
    transcription,     \* useState({user, ai}), line 10: the displayed text
    history,           \* useState([]), line 11
    audioContexts,     \* useRef(null), line 13: TRUE once created
    liveSession,       \* useRef(null), line 14: 0 is null, else the attempt
    nextStartTime,     \* useRef(0), line 15
    sources,           \* useRef(new Set()), line 16: ids of audio nodes
    transcriptionRef,  \* useRef({user, ai}), line 18: the accumulators
    chan,              \* per attempt: where its startSession / channel is
    resolved,          \* per attempt: line 175 has run
    pending,           \* onmessage invocations suspended at line 112
    nodes,             \* the output context's buffer sources, in start order
    clock,             \* outCtx.currentTime
    updateQueue,       \* setHistory updaters React has not rendered yet
    pendingLanes,      \* the component has state updates not yet rendered
    arrived,           \* number of inbound messages delivered so far
    segment,           \* number of flushes (interruption or stop) so far
    emitted,           \* every TurnRecord appended to history, in order
    finalized,         \* the accumulators' records at each turn-complete
    interruptions,     \* number of interrupted signals processed so far
    heard,             \* the deltas received per role since the last clear
    sent               \* the last sendRealtimeInput call, if any

vars == << isActive, transcription, history, audioContexts, liveSession,
           nextStartTime, sources, transcriptionRef, chan, resolved, pending,
           nodes, clock, updateQueue, pendingLanes, arrived, segment,
           emitted, finalized, interruptions, heard, sent >>

\* ----------------------------------------------------------------- helpers
Max(a, b) == IF a >= b THEN a ELSE b

EmptyText == [user |-> << >>, ai |-> << >>]

\* No realtime input has been sent yet.
NoSend == [to |-> 0, state |-> "none", active |-> FALSE, sample |-> 0, data |-> 0]

Init ==
    /\ isActive = FALSE
    /\ transcription = EmptyText
    /\ history = << >>
    /\ audioContexts = FALSE
    /\ liveSession = 0
    /\ nextStartTime = 0
    /\ sources = {}
    /\ transcriptionRef = EmptyText
    /\ chan = [i \in Attempts |-> "none"]
    /\ resolved = [i \in Attempts |-> FALSE]
    /\ pending = {}
    /\ nodes = << >>
    /\ clock = 0
    /\ updateQueue = << >>
    /\ pendingLanes = FALSE
    /\ arrived = 0
    /\ segment = 0
    /\ emitted = << >>
    /\ finalized = << >>
    /\ interruptions = 0
    /\ heard = EmptyText
    /\ sent = NoSend

\* ------------------------------------------------------- React state setters
\* setIsActive(v): a change of value schedules a render, an equal value bails out.
LanesAfterSetIsActive(v) == pendingLanes \/ (isActive # v)

\* ------------------------------------------------------------- stopSession
\* session.close() on the channel liveSession.current refers to (line 29).
CloseChannel(st) == IF st \in {"connecting", "open"} THEN "closing" ELSE st

ChanAfterStop ==
    IF liveSession # 0 THEN [chan EXCEPT ![liveSession] = CloseChannel(@)] ELSE chan

\* sources.current.forEach(s => { try { s.stop() } catch (e) {} }): a source
\* that already ended is left as it is.
StopAll(nds, srcs) ==
    [k \in DOMAIN nds |->
        IF k \in srcs /\ nds[k].state = "playing"
        THEN [nds[k] EXCEPT !.state = "stopped"] ELSE nds[k]]

\* A variant of stopSession that leaves the playback cursor where it is.
StopSessionKeepsCursor(ch) ==
    /\ isActive' = FALSE
    /\ chan' = ch
    /\ liveSession' = 0
    /\ nodes' = StopAll(nodes, sources)
    /\ sources' = {}
    /\ nextStartTime' = nextStartTime
    /\ transcription' = EmptyText
    /\ transcriptionRef' = EmptyText
    /\ pendingLanes' = TRUE
    /\ segment' = segment + 1
    /\ heard' = EmptyText

\* stopSession, lines 26-40; ch is the channel table after line 29.
StopSession(ch) ==
    /\ isActive' = FALSE
    /\ chan' = ch
    /\ liveSession' = 0
    /\ nodes' = StopAll(nodes, sources)
    /\ sources' = {}
    /\ nextStartTime' = 0
    /\ transcription' = EmptyText
    /\ transcriptionRef' = EmptyText
    /\ pendingLanes' = TRUE
    /\ segment' = segment + 1
    /\ heard' = EmptyText

\* ------------------------------------------------------------ startSession
\* The toggle while isActive: lines 43-46.
ToggleStop ==
    /\ isActive
    /\ StopSession(ChanAfterStop)
    /\ UNCHANGED << history, audioContexts, resolved, pending, clock,
                    updateQueue, arrived, emitted, finalized,
                    interruptions >>
    /\ UNCHANGED sent

\* The toggle while not isActive: lines 48-74, up to the first await.
ToggleStart(i) ==
    /\ ~isActive
    /\ chan[i] = "none"
    /\ \A j \in Attempts : j < i => chan[j] # "none"
    /\ audioContexts' = TRUE
    /\ chan' = [chan EXCEPT ![i] = "acquiring"]
    /\ UNCHANGED << isActive, transcription, history, liveSession, nextStartTime,
                    sources, transcriptionRef, resolved, pending, nodes, clock,
                    updateQueue, pendingLanes, arrived, segment, emitted,
                    finalized,
                    interruptions >>
    /\ UNCHANGED << heard, sent >>

\* resume() and getUserMedia() succeeded: ai.live.connect is called, line 76.
Connect(i) ==
    /\ chan[i] = "acquiring"
    /\ chan' = [chan EXCEPT ![i] = "connecting"]
    /\ UNCHANGED << isActive, transcription, history, audioContexts, liveSession,
                    nextStartTime, sources, transcriptionRef, resolved, pending,
                    nodes, clock, updateQueue, pendingLanes, arrived, segment,
                    emitted, finalized,
                    interruptions >>
    /\ UNCHANGED << heard, sent >>

\* An await of lines 59-76 or of line 175 rejects: the catch of lines 177-180.
StartFails(i) ==
    /\ chan[i] \in {"acquiring", "connecting"}
    /\ chan' = [chan EXCEPT ![i] = "failed"]
    /\ isActive' = FALSE
    /\ pendingLanes' = LanesAfterSetIsActive(FALSE)
    /\ UNCHANGED << transcription, history, audioContexts, liveSession,
                    nextStartTime, sources, transcriptionRef, resolved, pending,
                    nodes, clock, updateQueue, arrived, segment, emitted,
                    finalized,
                    interruptions >>
    /\ UNCHANGED << heard, sent >>

\* onopen, lines 79-104.
OnOpen(i) ==
    /\ chan[i] = "connecting"
    /\ chan' = [chan EXCEPT ![i] = "open"]
    /\ isActive' = TRUE
    /\ pendingLanes' = LanesAfterSetIsActive(TRUE)
    /\ UNCHANGED << transcription, history, audioContexts, liveSession,
                    nextStartTime, sources, transcriptionRef, resolved, pending,
                    nodes, clock, updateQueue, arrived, segment, emitted,
                    finalized,
                    interruptions >>
    /\ UNCHANGED << heard, sent >>

\* liveSession.current = await sessionPromise, line 175.
AssignSession(i) ==
    /\ chan[i] \in {"open", "closing", "closed"}
    /\ ~resolved[i]
    /\ resolved' = [resolved EXCEPT ![i] = TRUE]
    /\ liveSession' = i
    /\ UNCHANGED << isActive, transcription, history, audioContexts,
                    nextStartTime, sources, transcriptionRef, chan, pending,
                    nodes, clock, updateQueue, pendingLanes, arrived, segment,
                    emitted, finalized,
                    interruptions >>
    /\ UNCHANGED << heard, sent >>

\* onerror, lines 156-159; the channel that reported the error then closes.
OnError(i) ==
    /\ chan[i] = "open"
    /\ StopSession([ChanAfterStop EXCEPT ![i] = "closing"])
    /\ UNCHANGED << history, audioContexts, resolved, pending, clock,
                    updateQueue, arrived, emitted, finalized,
                    interruptions >>
    /\ UNCHANGED sent

\* onclose, lines 160-162: after close() or when the remote end closes.
OnClose(i) ==
    /\ chan[i] \in {"open", "closing"}
    /\ chan' = [chan EXCEPT ![i] = "closed"]
    /\ isActive' = FALSE
    /\ pendingLanes' = LanesAfterSetIsActive(FALSE)
    /\ UNCHANGED << transcription, history, audioContexts, liveSession,
                    nextStartTime, sources, transcriptionRef, resolved, pending,
                    nodes, clock, updateQueue, arrived, segment, emitted,
                    finalized,
                    interruptions >>
    /\ UNCHANGED << heard, sent >>

\* ---------------------------------------------------------- inbound messages
\* A LiveServerMessage: its modelTurn.parts and which serverContent fields it has.
Msg(p, u, a, t, x) ==
    [parts |-> p, user |-> u, ai |-> a, turnComplete |-> t, interrupted |-> x]

\* Messages that carry one audio part, or the interrupted signal, only.
PlaybackMessages ==
    { Msg(<<d>>, FALSE, FALSE, FALSE, FALSE) : d \in Durations } \cup
    { Msg(<< >>, FALSE, FALSE, FALSE, TRUE) }

\* Messages that carry transcript deltas, turnComplete or interrupted only.
TranscriptMessages ==
    { Msg(<< >>, TRUE, FALSE, FALSE, FALSE),
      Msg(<< >>, FALSE, TRUE, FALSE, FALSE),
      Msg(<< >>, TRUE, TRUE, FALSE, FALSE),
      Msg(<< >>, FALSE, FALSE, TRUE, FALSE),
      Msg(<< >>, FALSE, TRUE, TRUE, FALSE),
      Msg(<< >>, FALSE, FALSE, FALSE, TRUE),
      Msg(<< >>, FALSE, FALSE, TRUE, TRUE) }

\* Messages whose modelTurn has several parts or comes with other content.
MixedMessages ==
    { Msg(<<NoData, 1>>, FALSE, FALSE, FALSE, FALSE),
      Msg(<<1, 2>>, FALSE, FALSE, FALSE, FALSE),
      Msg(<<NoData>>, FALSE, TRUE, FALSE, FALSE),
      Msg(<<1>>, FALSE, FALSE, FALSE, TRUE),
      Msg(<<1>>, FALSE, TRUE, FALSE, FALSE) }

Messages == PlaybackMessages \cup TranscriptMessages \cup MixedMessages

\* The text of the delta the n-th message carries.
Text(n) == << n >>

\* The first part at index >= from that has inlineData.data (line 109), or 0.
FirstData(parts, from) ==
    LET S == { k \in DOMAIN parts : k >= from /\ parts[k] # NoData }
    IN  IF S = {} THEN 0 ELSE CHOOSE k \in S : \A j \in S : k <= j

\* The updater's newEntries, lines 137-143, read from the accumulators r.
NewEntries(r) ==
    (IF r.user # << >> THEN << [text |-> r.user, role |-> "user"] >> ELSE << >>)
    \o (IF r.ai # << >> THEN << [text |-> r.ai, role |-> "ai"] >> ELSE << >>)

\* The number of TurnRecords kept, line 144.
HistoryLimit == 2

\* .slice(-2), line 144.
SliceFirst2(s) == IF Len(s) <= HistoryLimit THEN s ELSE SubSeq(s, 1, HistoryLimit)

SliceLast2(s) ==
    IF Len(s) <= HistoryLimit THEN s ELSE SubSeq(s, Len(s) - HistoryLimit + 1, Len(s))

\* Line 111: nextStartTime = Math.max(nextStartTime, outCtx.currentTime).
ClampToClockSkewed(nst, now) == now

ClampToClock(nst, now) == Max(nst, now)

\* Line 118: nextStartTime += audioBuffer.duration.
AdvanceByNothing(nst, d) == nst

AdvanceBy(nst, d) == nst + d

\* sources.add(source), line 119: sources is the ref object, which has no add
\* method, so the call throws a TypeError and the set is not changed.
SourcesAdd(srcs, id) == [threw |-> TRUE, set |-> srcs]

\* The accumulators after lines 124-133 for the n-th message m.
RefAfterDeltas(n, m, r) ==
    [user |-> IF m.user THEN r.user \o Text(n) ELSE r.user,
     ai   |-> IF m.ai THEN r.ai \o Text(n) ELSE r.ai]

\* The accumulators after lines 124-154: line 147 clears them on turnComplete;
\* lines 150-154 (interrupted) do not touch them.
RefClearedOnInterrupt(n, m, r) ==
    IF m.turnComplete \/ m.interrupted THEN EmptyText ELSE RefAfterDeltas(n, m, r)

RefAfterMessage(n, m, r) ==
    IF m.turnComplete THEN EmptyText ELSE RefAfterDeltas(n, m, r)

\* Lines 124-154 for the n-th message m, entered with nextStartTime nst, the
\* active-sources set srcs and the output context's nodes nds.
\* A variant whose ai branch shows only the latest delta instead of the
\* accumulator.
DisplayShowsLastDelta(n, m, disp, ref1) ==
    LET disp1 == IF m.user THEN [disp EXCEPT !.user = @ \o Text(n)] ELSE disp
    IN  IF m.ai THEN [user |-> << >>, ai |-> Text(n)] ELSE disp1

\* The displayed transcription after the deltas of message n: a user delta is
\* appended to the displayed user text, an ai delta replaces the display by
\* the ai accumulator and an empty user text.
DisplayAfterDeltas(n, m, disp, ref1) ==
    LET disp1 == IF m.user THEN [disp EXCEPT !.user = @ \o Text(n)] ELSE disp
    IN  IF m.ai THEN [user |-> << >>, ai |-> ref1.ai] ELSE disp1

OnMessageRest(n, m, nst, srcs, nds) ==
    LET ref1   == RefAfterDeltas(n, m, transcriptionRef)
        disp2  == DisplayAfterDeltas(n, m, transcription, ref1)
        lanes1 == pendingLanes \/ m.user \/ m.ai
        \* setHistory(updater): React runs the updater at the call only when the
        \* component has no pending update; otherwise it runs at the next render.
        upd    == [eager |-> ~lanes1,
                   entries |-> IF ~lanes1 THEN NewEntries(ref1) ELSE << >>]
    IN  /\ transcriptionRef' = RefAfterMessage(n, m, transcriptionRef)
        /\ transcription' = IF m.turnComplete THEN EmptyText ELSE disp2
        /\ updateQueue' = IF m.turnComplete THEN Append(updateQueue, upd)
                                            ELSE updateQueue
        /\ pendingLanes' = (lanes1 \/ m.turnComplete)
        /\ finalized' = IF m.turnComplete THEN finalized \o NewEntries(ref1)
                                          ELSE finalized
        /\ nodes' = IF m.interrupted THEN StopAll(nds, srcs) ELSE nds
        /\ sources' = IF m.interrupted THEN {} ELSE srcs
        /\ nextStartTime' = IF m.interrupted THEN 0 ELSE nst
        /\ segment' = IF m.interrupted THEN segment + 1 ELSE segment
        /\ interruptions' = IF m.interrupted THEN interruptions + 1
                                            ELSE interruptions

\* onmessage, lines 105-155, up to its first await (line 112) or, when no part
\* carries audio, to its end.
OnMessage(m) ==
    /\ \E i \in Attempts : chan[i] = "open"
    /\ arrived' = arrived + 1
    /\ LET n == arrived + 1
           k == FirstData(m.parts, 1)
       IN  IF k # 0
           THEN /\ nextStartTime' = ClampToClock(nextStartTime, clock)
                /\ pending' = pending \cup {[n |-> n, msg |-> m, idx |-> k]}
                /\ UNCHANGED << transcription, transcriptionRef, updateQueue,
                                pendingLanes, finalized, nodes, sources, segment,
                                interruptions >>
           ELSE /\ OnMessageRest(n, m, nextStartTime, sources, nodes)
                /\ UNCHANGED pending
    /\ UNCHANGED << isActive, history, audioContexts, liveSession, chan,
                    resolved, clock, emitted >>
    /\ heard' = IF FirstData(m.parts, 1) = 0 /\ m.turnComplete
              THEN EmptyText ELSE RefAfterDeltas(arrived + 1, m, heard)
    /\ UNCHANGED sent

\* decodeAudioData is asynchronous: the decode of any suspended invocation may
\* be the next to complete.
DecodeCompletes(h) == h \in pending

\* The continuation of onmessage after line 112: lines 113-119, then the next
\* part or lines 124-154.
DecodeDone(h) ==
    /\ DecodeCompletes(h)
    /\ LET d    == h.msg.parts[h.idx]
           id   == Len(nodes) + 1
           st   == Max(nextStartTime, clock)   \* start(when) in the past starts now
           node == [n |-> h.n, idx |-> h.idx, when |-> nextStartTime,
                    start |-> st, end |-> st + d, state |-> "playing",
                    seg |-> segment]
           nds1 == Append(nodes, node)
           nst1 == AdvanceBy(nextStartTime, d)
           add  == SourcesAdd(sources, id)
           k2   == FirstData(h.msg.parts, h.idx + 1)
       IN  IF add.threw
           THEN /\ nodes' = nds1
                /\ nextStartTime' = nst1
                /\ pending' = pending \ {h}
                /\ UNCHANGED << transcription, transcriptionRef, updateQueue,
                                pendingLanes, finalized, sources, segment,
                                interruptions >>
           ELSE IF k2 # 0
           THEN /\ nodes' = nds1
                /\ sources' = add.set
                /\ nextStartTime' = ClampToClock(nst1, clock)
                /\ pending' = (pending \ {h}) \cup {[h EXCEPT !.idx = k2]}
                /\ UNCHANGED << transcription, transcriptionRef, updateQueue,
                                pendingLanes, finalized, segment, interruptions >>
           ELSE /\ OnMessageRest(h.n, h.msg, nst1, add.set, nds1)
                /\ pending' = pending \ {h}
    /\ UNCHANGED << isActive, history, audioContexts, liveSession, chan,
                    resolved, clock, arrived, emitted >>
    /\ heard' = IF /\ ~SourcesAdd(sources, Len(nodes) + 1).threw
                 /\ FirstData(h.msg.parts, h.idx + 1) = 0
                 /\ h.msg.turnComplete
              THEN EmptyText ELSE heard
    /\ UNCHANGED sent

\* decodeAudioData rejects: the invocation of onmessage ends at line 112.
DecodeFails(h) ==
    /\ DecodeCompletes(h)
    /\ pending' = pending \ {h}
    /\ UNCHANGED << isActive, transcription, history, audioContexts, liveSession,
                    nextStartTime, sources, transcriptionRef, chan, resolved,
                    nodes, clock, updateQueue, pendingLanes, arrived, segment,
                    emitted, finalized,
                    interruptions >>
    /\ UNCHANGED << heard, sent >>

\* The 'ended' listener of line 116, when a source has played to its end.
Ended(k) ==
    /\ nodes[k].state = "playing"
    /\ clock >= nodes[k].end
    /\ nodes' = [nodes EXCEPT ![k].state = "ended"]
    /\ sources' = sources \ {k}
    /\ UNCHANGED << isActive, transcription, history, audioContexts, liveSession,
                    nextStartTime, transcriptionRef, chan, resolved, pending,
                    clock, updateQueue, pendingLanes, arrived, segment, emitted,
                    finalized,
                    interruptions >>
    /\ UNCHANGED << heard, sent >>

\* The output context's clock advances.
Tick ==
    /\ audioContexts
    /\ clock < MaxClock
    /\ clock' = clock + 1
    /\ UNCHANGED << isActive, transcription, history, audioContexts, liveSession,
                    nextStartTime, sources, transcriptionRef, chan, resolved,
                    pending, nodes, updateQueue, pendingLanes, arrived, segment,
                    emitted, finalized,
                    interruptions >>
    /\ UNCHANGED << heard, sent >>

\* ------------------------------------------------------------------- render
\* The entries one queued setHistory update appends: those computed at the
\* call, or the updater of lines 136-145 run now.
EntriesOf(u) == IF u.eager THEN u.entries ELSE NewEntries(transcriptionRef)

RECURSIVE AllEntries(_)
AllEntries(q) == IF q = << >> THEN << >> ELSE EntriesOf(Head(q)) \o AllEntries(Tail(q))

RECURSIVE ApplyUpdates(_, _)
ApplyUpdates(h, q) ==
    IF q = << >> THEN h
    ELSE ApplyUpdates(SliceLast2(h \o EntriesOf(Head(q))), Tail(q))

\* React renders the component: the queued state updates are applied.
Render ==
    /\ pendingLanes
    /\ history' = ApplyUpdates(history, updateQueue)
    /\ emitted' = emitted \o AllEntries(updateQueue)
    /\ updateQueue' = << >>
    /\ pendingLanes' = FALSE
    /\ UNCHANGED << isActive, transcription, audioContexts, liveSession,
                    nextStartTime, sources, transcriptionRef, chan, resolved,
                    pending, nodes, clock, arrived, segment, finalized,
                    interruptions >>
    /\ UNCHANGED << heard, sent >>

\* ------------------------------------------------------------------ capture
Min(a, b) == IF a <= b THEN a ELSE b

\* Division that truncates towards zero, as the conversion to an integer does.
TruncDiv(a, b) == IF a >= 0 THEN a \div b ELSE 0 - ((0 - a) \div b)

\* Storing the number v into an Int16Array element: v modulo 2^16, read as a
\* signed 16-bit integer.
ToInt16(v) ==
    ((v + Int16Modulus \div 2) % Int16Modulus) - Int16Modulus \div 2

\* A variant without the headroom factor that scales by 32768.
QuantizeNoHeadroom(k) ==
    LET unit    == 10 * SampleSteps
        clamped == Max(0 - unit, Min(unit, k * 10))
    IN  TruncDiv(clamped * (FullScale + 1), unit)

\* Math.max(-1, Math.min(1, x * 0.9)) * 32767 for x = k / SampleSteps, with its
\* fraction dropped.  Amplitudes are counted in units of 1 / (10 * SampleSteps).
Quantize(k) ==
    LET unit    == 10 * SampleSteps
        clamped == Max(0 - unit, Min(unit, k * HeadroomTenths))
    IN  TruncDiv(clamped * FullScale, unit)

\* int16[i] = ... of line 90.
Encode(k) == ToInt16(Quantize(k))

\* scriptProcessor.onaudioprocess, wired by onopen of attempt i and never
\* unwired: a frame of samples k is encoded and, the session promise being
\* resolved, handed to session.sendRealtimeInput of that attempt's channel.
OnAudioProcess(i, k) ==
    /\ chan[i] \in {"open", "closing", "closed"}
    /\ resolved[i]
    /\ sent' = [to |-> i, state |-> chan[i], active |-> isActive,
                sample |-> k, data |-> Encode(k)]
    /\ UNCHANGED << isActive, transcription, history, audioContexts, liveSession,
                    nextStartTime, sources, transcriptionRef, chan, resolved,
                    pending, nodes, clock, updateQueue, pendingLanes, arrived,
                    segment, emitted, finalized, interruptions, heard >>

\* ------------------------------------------------------------ specification
Next ==
    \/ ToggleStop
    \/ \E i \in Attempts : ToggleStart(i)
    \/ \E i \in Attempts : Connect(i)
    \/ \E i \in Attempts : StartFails(i)
    \/ \E i \in Attempts : OnOpen(i)
    \/ \E i \in Attempts : AssignSession(i)
    \/ \E i \in Attempts : OnError(i)
    \/ \E i \in Attempts : OnClose(i)
    \/ \E m \in Messages : arrived < MaxMsgs /\ OnMessage(m)
    \/ \E h \in pending : DecodeDone(h)
    \/ \E h \in pending : DecodeFails(h)
    \/ \E k \in DOMAIN nodes : Ended(k)
    \/ Tick
    \/ Render
    \/ \E i \in Attempts, k \in Samples : OnAudioProcess(i, k)

Spec == Init /\ [][Next]_vars

\* The session toggle and the channel's lifecycle callbacks alone.
NextSession ==
    \/ ToggleStop
    \/ \E i \in Attempts : ToggleStart(i)
    \/ \E i \in Attempts : Connect(i)
    \/ \E i \in Attempts : StartFails(i)
    \/ \E i \in Attempts : OnOpen(i)
    \/ \E i \in Attempts : AssignSession(i)
    \/ \E i \in Attempts : OnError(i)
    \/ \E i \in Attempts : OnClose(i)

SpecSession == Init /\ [][NextSession]_vars

\* One session receiving audio and interruptions.
NextPlayback ==
    \/ ToggleStop
    \/ ToggleStart(1)
    \/ Connect(1)
    \/ OnOpen(1)
    \/ AssignSession(1)
    \/ \E m \in PlaybackMessages : arrived < MaxMsgs /\ OnMessage(m)
    \/ \E h \in pending : DecodeDone(h)
    \/ \E k \in DOMAIN nodes : Ended(k)
    \/ Tick

SpecPlayback == Init /\ [][NextPlayback]_vars

\* One session receiving transcript deltas, turn-completes and interruptions.
NextTranscript ==
    \/ ToggleStop
    \/ ToggleStart(1)
    \/ Connect(1)
    \/ OnOpen(1)
    \/ AssignSession(1)
    \/ \E m \in TranscriptMessages : arrived < MaxTextMsgs /\ OnMessage(m)
    \/ Render

SpecTranscript == Init /\ [][NextTranscript]_vars

\* One session whose microphone frames are encoded and sent.
NextCapture ==
    \/ ToggleStop
    \/ ToggleStart(1)
    \/ Connect(1)
    \/ OnOpen(1)
    \/ AssignSession(1)
    \/ OnError(1)
    \/ OnClose(1)
    \/ \E k \in Samples : OnAudioProcess(1, k)

SpecCapture == Init /\ [][NextCapture]_vars

\* Messages that carry audio together with a delta, and plain deltas.
FailureMessages ==
    { Msg(<<1>>, FALSE, FALSE, FALSE, FALSE),
      Msg(<<1>>, FALSE, TRUE, FALSE, FALSE),
      Msg(<< >>, TRUE, FALSE, FALSE, FALSE),
      Msg(<< >>, FALSE, TRUE, FALSE, FALSE),
      Msg(<< >>, FALSE, FALSE, TRUE, FALSE),
      Msg(<< >>, FALSE, FALSE, FALSE, TRUE) }

\* One session whose decodes may fail and whose channel may fail or close.
NextFailure ==
    \/ ToggleStart(1)
    \/ Connect(1)
    \/ OnOpen(1)
    \/ AssignSession(1)
    \/ OnError(1)
    \/ OnClose(1)
    \/ \E m \in FailureMessages : arrived < MaxMsgs /\ OnMessage(m)
    \/ \E h \in pending : DecodeDone(h)
    \/ \E h \in pending : DecodeFails(h)
    \/ Tick

SpecFailure == Init /\ [][NextFailure]_vars

\* ==================================================================== claims

\* A session is Active when its channel has been opened and not closed.
ActiveSessions == { i \in Attempts : chan[i] = "open" }

\* A session is Connecting from its start request until its channel opens.
ConnectingSessions == { i \in Attempts : chan[i] \in {"acquiring", "connecting"} }

\* C1: in every reachable state at most one session is Active: there is never
\* more than one streaming channel that has been opened and not yet closed.
C1_AtMostOneActive == Cardinality(ActiveSessions) <= 1

\* The state a full stop leaves: status inactive, no session handle, no open or
\* opening channel, playback flushed, clock reset, transcript cleared.
FullyStopped ==
    /\ ~isActive
    /\ liveSession = 0
    /\ ActiveSessions = {}
    /\ ConnectingSessions = {}
    /\ sources = {}
    /\ nextStartTime = 0
    /\ transcription = EmptyText
    /\ transcriptionRef = EmptyText

\* C2: a toggle issued while a session is Connecting or Active triggers a full
\* stop and never begins a second connection attempt.
C2_ToggleWhileBusyStops ==
    [][ ( /\ ActiveSessions \cup ConnectingSessions # {}
          /\ (ToggleStop \/ \E i \in Attempts : ToggleStart(i)) )
        => ( /\ FullyStopped'
             /\ \A i \in Attempts : chan[i] = "none" => chan'[i] = "none" ) ]_vars

\* ------------------------------------------------------------------ playback
\* Two chunks scheduled in the same uninterrupted segment, j before k.
SameSegment(j, k) ==
    /\ j \in DOMAIN nodes /\ k \in DOMAIN nodes
    /\ j < k
    /\ nodes[j].seg = nodes[k].seg

\* The chunk's decode completed no later than the start time it was given.
OnTime(k) == nodes[k].start = nodes[k].when

Duration(k) == nodes[k].end - nodes[k].start

\* C3: chunks are scheduled in the order their messages arrived: a chunk of a
\* later message is never scheduled before a chunk of an earlier message.
C3_ScheduledInArrivalOrder ==
    \A j, k \in DOMAIN nodes : j < k => nodes[j].n <= nodes[k].n

\* C4 as stated: the playback intervals of any two chunks scheduled in the same
\* uninterrupted segment never overlap.
C4_NeverOverlap ==
    \A j, k \in DOMAIN nodes : SameSegment(j, k) => nodes[j].end <= nodes[k].start

\* C4 as amended: a chunk whose decode completed no later than its start time
\* plays from nextStartTime to nextStartTime + duration and no chunk scheduled
\* after it in the same segment overlaps it; the chunk scheduled next is given
\* a start time no earlier than the previous chunk's booked end, and exactly
\* that end while the clock has not passed it.
C4_NoOverlapWhenOnTime ==
    /\ \A j, k \in DOMAIN nodes :
          (SameSegment(j, k) /\ OnTime(j)) => nodes[j].end <= nodes[k].start
    /\ \A k \in DOMAIN nodes :
          (k + 1 \in DOMAIN nodes /\ SameSegment(k, k + 1)) =>
              LET booked == nodes[k].when + Duration(k)
              IN  /\ nodes[k + 1].when >= booked
                  /\ clock <= booked => nodes[k + 1].when = booked

\* Chunks of 1 and 2 ticks, nextStartTime 0, clock at 1: [1, 2) then [2, 4).
C4_Witness ==
    /\ Len(nodes) >= 2
    /\ SameSegment(1, 2)
    /\ nodes[1].when = 1 /\ nodes[1].start = 1 /\ nodes[1].end = 2
    /\ nodes[2].start = 2 /\ nodes[2].end = 4

\* C5: nextStartTime never decreases within an uninterrupted segment and is 0
\* right after a flush (interruption or stop).
C5_NextStartTimeMonotone ==
    [][ /\ segment' = segment => nextStartTime' >= nextStartTime
        /\ segment' # segment => nextStartTime' = 0 ]_vars

\* Two chunks were scheduled in one segment, then a flush reset the clock.
C5_Witness ==
    /\ nextStartTime = 0
    /\ \E j, k \in DOMAIN nodes : SameSegment(j, k) /\ nodes[k].seg < segment

\* The buffers that are scheduled or playing on the output context.
Playing == { k \in DOMAIN nodes : nodes[k].state = "playing" }

\* C6: the active-sources set is exactly the set of buffers scheduled or
\* playing (those scheduled, less those ended, less those stopped).
C6_SourcesArePlaying == sources = Playing

\* C7: once an interrupted signal has been processed, no chunk scheduled before
\* it is left to play.
C7_InterruptStopsAll ==
    [][ interruptions' # interruptions =>
            \A k \in DOMAIN nodes' :
                nodes'[k].state = "playing" => nodes'[k].end <= clock' ]_vars

\* ---------------------------------------------------------------- transcript
IsPrefix(s, t) == Len(s) <= Len(t) /\ SubSeq(t, 1, Len(s)) = s

C9_TurnCompleteEmitsRecords == updateQueue = << >> => emitted = finalized

\* The last (up to) HistoryLimit elements of s, in order.
LastOf(s) ==
    LET k == IF Len(s) <= HistoryLimit THEN Len(s) ELSE HistoryLimit
    IN  [i \in 1..k |-> s[Len(s) - k + i]]

\* C10: the history holds at most 2 TurnRecords and is always the last (up to)
\* 2 records emitted, in emission order.
C10_HistoryIsLastTwoEmitted ==
    /\ Len(history) <= HistoryLimit
    /\ history = LastOf(emitted)

\* A third record was emitted and the oldest was evicted.
C10_Witness ==
    /\ Len(emitted) > HistoryLimit
    /\ Len(history) = HistoryLimit
    /\ history[1] = emitted[Len(emitted) - 1]
    /\ history # SubSeq(emitted, 1, HistoryLimit)

\* A step that executes stopSession: the toggle while active, or onerror.
StopExecuted == ToggleStop \/ \E i \in Attempts : OnError(i)

\* No session is Connecting or Active and the status reads inactive.
SessionIdle == ~isActive /\ ActiveSessions = {} /\ ConnectingSessions = {}

\* C11: stop is idempotent: executed on a session that is already Closed or
\* Idle it changes no state, and it never calls close on a channel that is
\* already closing or closed, whether by a previous stop or by the remote end.
C11_StopIsIdempotent ==
    [][StopExecuted =>
        /\ liveSession # 0 => chan[liveSession] = "open"
        /\ SessionIdle => UNCHANGED << isActive, liveSession, chan, sources,
                                       nextStartTime, transcription,
                                       transcriptionRef >>]_vars

C13_FailedStartLeavesInactive ==
    [][(\E i \in Attempts : StartFails(i)) =>
        /\ ~isActive'
        /\ ActiveSessions' = {}
        /\ ConnectingSessions' = {}]_vars

\* An encoded sample lies in the signed 16-bit range.
InInt16Range(v) == 0 - Int16Modulus \div 2 <= v /\ v < Int16Modulus \div 2

\* C14: for every capture sample in [-1, 1] the encoded sample lies in the
\* signed 16-bit range and no wrap-around occurred: the stored int16 is the
\* scaled, clamped value itself, with the sign of the input.
C14_EncodedWithoutWrap ==
    (sent.to # 0 /\ 0 - SampleSteps <= sent.sample /\ sent.sample <= SampleSteps)
        => /\ InInt16Range(sent.data)
           /\ sent.data = Quantize(sent.sample)
           /\ (sent.sample >= 0) = (sent.data >= 0)

\* A frame at full scale +1.0 was encoded and sent.
C14_Witness ==
    /\ sent.to # 0
    /\ sent.sample = SampleSteps
    /\ sent.data > FullScale \div 2

\* C15: after a stop the capture subscription is detached: every send is
\* issued while the status is active and on a channel that is open.
C15_NoSendAfterStop ==
    sent.to # 0 => (sent.active /\ sent.state = "open")

\* C16: a failed decode is recovered locally: the transcript delta that came
\* in the same message as the offending chunk is still appended.
C16_DecodeFailureRecovered ==
    [][\A h \in pending :
        (/\ DecodeFails(h)
         /\ FirstData(h.msg.parts, h.idx + 1) = 0
         /\ h.msg.ai
         /\ ~h.msg.turnComplete)
            => transcriptionRef'.ai = transcriptionRef.ai \o Text(h.n)]_vars

\* C17: inbound messages are processed one at a time: while an earlier
\* message still waits for its decode, the arrival of a later message applies
\* none of its effects.
C17_OneMessageAtATime ==
    [][(arrived' # arrived /\ pending # {}) =>
        UNCHANGED << nextStartTime, nodes, sources, transcriptionRef,
                     transcription, updateQueue, segment, interruptions >>]_vars

\* C18: once every received message has been handled, each accumulator is the
\* concatenation, in arrival order, of the deltas of its role received since
\* the accumulators were last cleared together: no delta is lost.
C18_AccumulatorsHoldAllDeltas ==
    pending = {} => transcriptionRef = heard

\* The live line of the render, lines 233-236: transcription.ai || transcription.user.
LiveLine(t) == IF t.ai # << >> THEN t.ai ELSE t.user

C20_StopLeavesNoOpenChannel ==
    [][StopExecuted => ActiveSessions' = {}]_vars

====
